---- MODULE Spec2Model ----
(***************************************************************************)
(* Model of src/app.py: the Streamlit chat page of the AI Career           *)
(* Assistant.  One browser session: st.session_state (messages,            *)
(* previous_response_id, uploader_key), the file-uploader widget, the      *)
(* locals of the chat_input handler, the inline error display and the      *)
(* requests sent to the Responses API.                                     *)
(*                                                                         *)
(* Encodings.  A Python Optional is a sequence of length <= 1: None is     *)
(* <<>> and a value v is <<v>>.  A text is a sequence of one-character     *)
(* strings.  A content type is a sequence of its '/'-separated segments    *)
(* ("image/jpeg" is <<"image", "jpeg">>, "" is <<"">>).  File bytes are    *)
(* sequences of 0..255.  Data URLs and API identifiers are strings.        *)
(***************************************************************************)
EXTENDS Integers, Sequences, FiniteSets, TLC

VARIABLES
    messages,              \* st.session_state.messages
    previous_response_id,  \* st.session_state.previous_response_id
    uploader_key,          \* st.session_state.uploader_key
    file_uploader,         \* widget state of st.file_uploader: [key, files]
    chat_input,            \* value of st.chat_input in the current script run
    images,                \* handler local `images`
    parts,                 \* handler local `parts`
    image_urls,            \* handler local `image_urls`
    error,                 \* text shown by st.error in the current page
    pc,                    \* "idle", "assembled" or "awaiting"
    pending,               \* requests sent to the API and not yet answered
    calls,                 \* number of client.responses.create calls made
    submits,               \* number of script runs with chat_input not None
    ok_turns,              \* calls that returned since the last clear
    failed_turns,          \* calls that raised since the last clear
    last_reply,            \* response of the latest call that returned since the last clear
    cleared,               \* TRUE once the clear button has been pressed
    event                  \* the handler that ran last

vars == <<messages, previous_response_id, uploader_key, file_uploader,
          chat_input, images, parts, image_urls, error, pc, pending, calls,
          submits, ok_turns, failed_turns, last_reply, cleared, event>>

----------------------------------------------------------------------------
(* Bounds of the model *)

MaxTextLen == 3

MaxImages == 2

MaxUploads == 1

MaxSubmits == 2

----------------------------------------------------------------------------
(* Values *)

None == <<>>

Some(v) == <<v>>

SeqsUpTo(S, n) == UNION {[1..k -> S] : k \in 0..n}

Whitespace == {" ", "\n"}

Chars == Whitespace \cup {"a"}

Texts == SeqsUpTo(Chars, MaxTextLen)

ChatTexts == {<<>>, <<" ">>, <<" ", "a", " ">>}

JpegFile == [type |-> Some(<<"image", "jpeg">>), data |-> <<255, 216, 255>>]

PngFile == [type |-> Some(<<"image", "png">>), data |-> <<137, 80>>]

UntypedFile == [type |-> None, data |-> <<0>>]

BlankTypeFile == [type |-> Some(<<"">>), data |-> <<>>]

Files == {JpegFile, PngFile, UntypedFile, BlankTypeFile}

SessionFiles == {JpegFile, UntypedFile}

ResponseIds == {None, Some(""), Some("r1"), Some("r2")}

OutputTexts == {"Focus on databases and APIs."}

Responses == [id : ResponseIds, output_text : OutputTexts]

Exceptions == {"Connection error."}

----------------------------------------------------------------------------
(* Python helpers used by the handler *)

RECURSIVE lstrip(_)
lstrip(s) ==
    IF s # <<>> /\ Head(s) \in Whitespace THEN lstrip(Tail(s)) ELSE s

RECURSIVE rstrip(_)
rstrip(s) ==
    IF s # <<>> /\ s[Len(s)] \in Whitespace
    THEN rstrip(SubSeq(s, 1, Len(s) - 1))
    ELSE s

strip(s) == rstrip(lstrip(s))

RECURSIVE join(_, _)
join(segs, sep) ==
    IF segs = <<>> THEN ""
    ELSE IF Len(segs) = 1 THEN segs[1]
    ELSE segs[1] \o sep \o join(Tail(segs), sep)

TypeStr(type) == join(type[1], "/")

Truthy(type) == type # None /\ TypeStr(type) # ""

FormatType(type) == IF type = None THEN "None" ELSE TypeStr(type)

B64Alphabet ==
    << "A", "B", "C", "D", "E", "F", "G", "H", "I", "J", "K", "L", "M",
       "N", "O", "P", "Q", "R", "S", "T", "U", "V", "W", "X", "Y", "Z",
       "a", "b", "c", "d", "e", "f", "g", "h", "i", "j", "k", "l", "m",
       "n", "o", "p", "q", "r", "s", "t", "u", "v", "w", "x", "y", "z",
       "0", "1", "2", "3", "4", "5", "6", "7", "8", "9", "+", "/" >>

B64Char(n) == B64Alphabet[n + 1]

RECURSIVE b64encode(_)
b64encode(data) ==
    IF data = <<>> THEN ""
    ELSE IF Len(data) = 1 THEN
        B64Char(data[1] \div 4) \o B64Char((data[1] % 4) * 16) \o "=="
    ELSE IF Len(data) = 2 THEN
        B64Char(data[1] \div 4)
            \o B64Char((data[1] % 4) * 16 + data[2] \div 16)
            \o B64Char((data[2] % 16) * 4) \o "="
    ELSE
        B64Char(data[1] \div 4)
            \o B64Char((data[1] % 4) * 16 + data[2] \div 16)
            \o B64Char((data[2] % 16) * 4 + data[3] \div 64)
            \o B64Char(data[3] % 64)
            \o b64encode(SubSeq(data, 4, Len(data)))

----------------------------------------------------------------------------
(* Input assembly *)

MimeType(f) ==
    IF Truthy(f.type) THEN "image/" \o f.type[1][Len(f.type[1])] ELSE "image/png"

DataUrl(f) == "data:" \o FormatType(f.type) \o ";base64," \o b64encode(f.data)

ImageOf(f) == [mime_type |-> MimeType(f), data_url |-> DataUrl(f)]

ImagesOf(files) == [i \in 1..Len(files) |-> ImageOf(files[i])]

(* Variant: the text part is appended after the image parts. *)
build_content_TextLast(text, imgs) ==
    [i \in 1..Len(imgs) |-> [type |-> "input_image", image_url |-> imgs[i].data_url]]
    \o (IF text # <<>> /\ strip(text) # <<>>
        THEN <<[type |-> "input_text", text |-> strip(text)]>>
        ELSE <<>>)

build_content(text, imgs) ==
    (IF text # <<>> /\ strip(text) # <<>>
     THEN <<[type |-> "input_text", text |-> strip(text)]>>
     ELSE <<>>)
    \o [i \in 1..Len(imgs) |-> [type |-> "input_image", image_url |-> imgs[i].data_url]]

build_input_parts(text, imgs) ==
    IF build_content(text, imgs) # <<>>
    THEN <<[type |-> "message", role |-> "user", content |-> build_content(text, imgs)]>>
    ELSE <<>>

ImageUrls(imgs) == [i \in 1..Len(imgs) |-> imgs[i].data_url]

uploaded == IF file_uploader.key = uploader_key THEN file_uploader.files ELSE <<>>

----------------------------------------------------------------------------
(* The chat_input handler up to the call: images, parts, image_urls *)

handler_images(files) == ImagesOf(files)

handler_image_urls(imgs) == IF imgs # <<>> THEN ImageUrls(imgs) ELSE <<>>

UserTurn(text, urls) ==
    [role |-> "user", content |-> [text |-> text, images |-> urls]]

AssistantTurn(text) == [role |-> "assistant", content |-> text]

Request(input, token) ==
    [model |-> "gpt-5-nano", input |-> input,
     tools |-> <<[type |-> "file_search", vector_store_ids |-> <<"VECTOR_STORE_ID">>]>>,
     instructions |-> "SYSTEM_PROMPT",
     previous_response_id |-> token]

get_text_output(response) == response.output_text

(* Variant: the identifier is stored as returned, without the falsy check. *)
NextResponseId_Raw(response) == response.id

NextResponseId(response) ==
    IF response.id # None /\ response.id[1] # "" THEN response.id ELSE None

ErrorText(e) == "An error occurred: " \o e

----------------------------------------------------------------------------
(* Script runs *)

FreshLocals ==
    /\ chat_input' = None
    /\ images' = <<>>
    /\ parts' = <<>>
    /\ image_urls' = <<>>
    /\ error' = None

RenderUploader(key) ==
    IF file_uploader.key = key THEN file_uploader ELSE [key |-> key, files |-> <<>>]

Init ==
    /\ messages = <<>>
    /\ previous_response_id = None
    /\ uploader_key = 0
    /\ file_uploader = [key |-> 0, files |-> <<>>]
    /\ chat_input = None
    /\ images = <<>>
    /\ parts = <<>>
    /\ image_urls = <<>>
    /\ error = None
    /\ pc = "idle"
    /\ pending = <<>>
    /\ calls = 0
    /\ submits = 0
    /\ ok_turns = 0
    /\ failed_turns = 0
    /\ last_reply = None
    /\ cleared = FALSE
    /\ event = "start"

UploadFile ==
    /\ pc = "idle"
    /\ Len(uploaded) < MaxUploads
    /\ \E f \in SessionFiles :
          file_uploader' = [key |-> uploader_key, files |-> Append(uploaded, f)]
    /\ FreshLocals
    /\ event' = "upload"
    /\ UNCHANGED <<messages, previous_response_id, uploader_key, pc, pending,
                   calls, submits, ok_turns, failed_turns, last_reply, cleared>>

RemoveFile ==
    /\ pc = "idle"
    /\ \E i \in 1..Len(uploaded) :
          file_uploader' =
              [key |-> uploader_key,
               files |-> SubSeq(uploaded, 1, i - 1) \o SubSeq(uploaded, i + 1, Len(uploaded))]
    /\ FreshLocals
    /\ event' = "remove"
    /\ UNCHANGED <<messages, previous_response_id, uploader_key, pc, pending,
                   calls, submits, ok_turns, failed_turns, last_reply, cleared>>

(* Variant: the button clears the history only. *)
ClearConversationHistory_KeepsToken ==
    /\ pc = "idle"
    /\ messages' = <<>>
    /\ file_uploader' = RenderUploader(uploader_key)
    /\ FreshLocals
    /\ ok_turns' = 0
    /\ failed_turns' = 0
    /\ last_reply' = None
    /\ cleared' = TRUE
    /\ event' = "clear"
    /\ UNCHANGED <<previous_response_id, uploader_key, pc, pending, calls, submits>>

(* Variant: the button also resets the uploader by incrementing its key. *)
ClearConversationHistory_ResetsUploader ==
    /\ pc = "idle"
    /\ messages' = <<>>
    /\ previous_response_id' = None
    /\ uploader_key' = uploader_key + 1
    /\ file_uploader' = RenderUploader(uploader_key')
    /\ FreshLocals
    /\ ok_turns' = 0
    /\ failed_turns' = 0
    /\ last_reply' = None
    /\ cleared' = TRUE
    /\ event' = "clear"
    /\ UNCHANGED <<pc, pending, calls, submits>>

ClearConversationHistory ==
    /\ pc = "idle"
    /\ messages' = <<>>
    /\ previous_response_id' = None
    /\ file_uploader' = RenderUploader(uploader_key)
    /\ FreshLocals
    /\ ok_turns' = 0
    /\ failed_turns' = 0
    /\ last_reply' = None
    /\ cleared' = TRUE
    /\ event' = "clear"
    /\ UNCHANGED <<uploader_key, pc, pending, calls, submits>>

Submit ==
    /\ pc = "idle"
    /\ submits < MaxSubmits
    /\ \E text \in ChatTexts :
          /\ chat_input' = Some(text)
          /\ images' = handler_images(uploaded)
          /\ parts' = build_input_parts(text, images')
          /\ image_urls' = handler_image_urls(images')
          /\ messages' = Append(messages, UserTurn(text, image_urls'))
          /\ pending' = Append(pending, Request(parts', previous_response_id))
    /\ error' = None
    /\ calls' = calls + 1
    /\ submits' = submits + 1
    /\ pc' = "awaiting"
    /\ event' = "submit"
    /\ UNCHANGED <<previous_response_id, uploader_key, file_uploader,
                   ok_turns, failed_turns, last_reply, cleared>>

(* Variant: a successful turn does not increment the uploader key. *)
Succeed_KeepsUploaderKey ==
    /\ pc = "awaiting"
    /\ \E response \in Responses :
          /\ previous_response_id' = NextResponseId(response)
          /\ messages' = Append(messages, AssistantTurn(get_text_output(response)))
          /\ last_reply' = Some(response)
    /\ file_uploader' = RenderUploader(uploader_key)
    /\ FreshLocals
    /\ pending' = Tail(pending)
    /\ ok_turns' = ok_turns + 1
    /\ pc' = "idle"
    /\ event' = "success"
    /\ UNCHANGED <<uploader_key, calls, submits, failed_turns, cleared>>

Succeed ==
    /\ pc = "awaiting"
    /\ \E response \in Responses :
          /\ previous_response_id' = NextResponseId(response)
          /\ messages' = Append(messages, AssistantTurn(get_text_output(response)))
          /\ last_reply' = Some(response)
    /\ uploader_key' = uploader_key + 1
    /\ file_uploader' = RenderUploader(uploader_key')
    /\ FreshLocals
    /\ pending' = Tail(pending)
    /\ ok_turns' = ok_turns + 1
    /\ pc' = "idle"
    /\ event' = "success"
    /\ UNCHANGED <<calls, submits, failed_turns, cleared>>

(* Variant: the except branch drops the continuation token. *)
Fail_ResetsToken ==
    /\ pc = "awaiting"
    /\ \E e \in Exceptions : error' = Some(ErrorText(e))
    /\ previous_response_id' = None
    /\ pending' = Tail(pending)
    /\ failed_turns' = failed_turns + 1
    /\ pc' = "idle"
    /\ event' = "failure"
    /\ UNCHANGED <<messages, uploader_key, file_uploader,
                   chat_input, images, parts, image_urls, calls, submits,
                   ok_turns, last_reply, cleared>>

(* Variant: the except branch removes the user message it had appended. *)
Fail_RollsBackUserTurn ==
    /\ pc = "awaiting"
    /\ \E e \in Exceptions : error' = Some(ErrorText(e))
    /\ messages' = SubSeq(messages, 1, Len(messages) - 1)
    /\ pending' = Tail(pending)
    /\ failed_turns' = failed_turns + 1
    /\ pc' = "idle"
    /\ event' = "failure"
    /\ UNCHANGED <<previous_response_id, uploader_key, file_uploader,
                   chat_input, images, parts, image_urls, calls, submits,
                   ok_turns, last_reply, cleared>>

(* Variant: the except branch issues the call once more. *)
Fail_Retries ==
    /\ pc = "awaiting"
    /\ \E e \in Exceptions : error' = Some(ErrorText(e))
    /\ pending' = Append(Tail(pending), Request(parts, previous_response_id))
    /\ calls' = calls + 1
    /\ failed_turns' = failed_turns + 1
    /\ event' = "failure"
    /\ UNCHANGED <<messages, previous_response_id, uploader_key, file_uploader,
                   chat_input, images, parts, image_urls, pc, submits,
                   ok_turns, last_reply, cleared>>

Fail ==
    /\ pc = "awaiting"
    /\ \E e \in Exceptions : error' = Some(ErrorText(e))
    /\ pending' = Tail(pending)
    /\ failed_turns' = failed_turns + 1
    /\ pc' = "idle"
    /\ event' = "failure"
    /\ UNCHANGED <<messages, previous_response_id, uploader_key, file_uploader,
                   chat_input, images, parts, image_urls, calls, submits,
                   ok_turns, last_reply, cleared>>

Next ==
    \/ UploadFile
    \/ RemoveFile
    \/ ClearConversationHistory
    \/ Submit
    \/ Succeed
    \/ Fail

Spec == Init /\ [][Next]_vars

----------------------------------------------------------------------------
(* Input assembly on its own: every text and every list of uploads *)

InitAssemble ==
    /\ messages = <<>>
    /\ previous_response_id = None
    /\ uploader_key = 0
    /\ file_uploader \in [key : {0}, files : SeqsUpTo(Files, MaxImages)]
    /\ chat_input \in {Some(t) : t \in Texts}
    /\ images = <<>>
    /\ parts = <<>>
    /\ image_urls = <<>>
    /\ error = None
    /\ pc = "idle"
    /\ pending = <<>>
    /\ calls = 0
    /\ submits = 0
    /\ ok_turns = 0
    /\ failed_turns = 0
    /\ last_reply = None
    /\ cleared = FALSE
    /\ event = "start"

AssembleInput ==
    /\ pc = "idle"
    /\ chat_input # None
    /\ images' = handler_images(uploaded)
    /\ parts' = build_input_parts(chat_input[1], images')
    /\ image_urls' = handler_image_urls(images')
    /\ pc' = "assembled"
    /\ event' = "assemble"
    /\ UNCHANGED <<messages, previous_response_id, uploader_key, file_uploader,
                   chat_input, error, pending, calls, submits, ok_turns,
                   failed_turns, last_reply, cleared>>

NextAssemble == AssembleInput

SpecAssemble == InitAssemble /\ [][NextAssemble]_vars

----------------------------------------------------------------------------
(* Steps of the session, recognised by the handler that ran *)

FailStep == pc = "awaiting" /\ event' = "failure"

SuccessStep == pc = "awaiting" /\ event' = "success"

ClearStep == pc = "idle" /\ event' = "clear"

Last(s) == s[Len(s)]

(* The token a returned response leaves behind, read off the response. *)
TokenOf(reply) ==
    IF reply = None THEN None
    ELSE IF reply[1].id = None \/ reply[1].id = Some("") THEN None
    ELSE reply[1].id

(* t is s without its leading and trailing whitespace. *)
IsTrimOf(t, s) ==
    \E i \in 0..Len(s) : \E j \in 0..(Len(s) - i) :
        /\ t = SubSeq(s, i + 1, Len(s) - j)
        /\ \A k \in 1..i : s[k] \in Whitespace
        /\ \A k \in (Len(s) - j + 1)..Len(s) : s[k] \in Whitespace
        /\ t # <<>> => (t[1] \notin Whitespace /\ t[Len(t)] \notin Whitespace)

TrimOf(s) == CHOOSE t \in SeqsUpTo(Chars, Len(s)) : IsTrimOf(t, s)

Content == IF parts = <<>> THEN <<>> ELSE parts[1].content

DeclaredMime(type) ==
    IF type = None \/ type = Some(<<"">>) THEN "image/png" ELSE TypeStr(type)

----------------------------------------------------------------------------
(* Claims *)

(* C1: when the completion call fails, the session is idle again, the
   history is what it was (its last Turn the user Turn just submitted, no
   assistant Turn), the continuation token is what it was before the call,
   and an error is displayed. *)
C1_FailedCallKeepsUserTurnAndToken ==
    [][FailStep =>
          /\ pc' = "idle"
          /\ messages' = messages
          /\ Len(messages') > 0
          /\ Last(messages').role = "user"
          /\ Last(messages') = UserTurn(chat_input[1], image_urls)
          /\ previous_response_id' = previous_response_id
          /\ error' # None]_vars

C1_Witness ==
    /\ event = "failure"
    /\ pc = "idle"
    /\ previous_response_id # None
    /\ Len(messages) = 3
    /\ error # None

(* C2: the token sent in a call is the identifier of the latest response
   returned since the last clear, and no token when that response carried
   no identifier, when a clear intervened or when no call has returned. *)
C2_TokenRoundTrip ==
    \A i \in 1..Len(pending) :
        pending[i].previous_response_id = TokenOf(last_reply)

C2_Witness ==
    /\ pc = "awaiting"
    /\ last_reply # None
    /\ pending[1].previous_response_id = Some("r1")

(* C3: a submission with blank text and no images is ignored: its part
   list is empty, no request is sent and no error is displayed. *)
C3_EmptySubmissionIgnored ==
    (chat_input # None /\ strip(chat_input[1]) = <<>> /\ images = <<>>)
        => (parts = <<>> /\ pending = <<>> /\ error = None)

(* C4: a clear empties the history and the token in one step, and in every
   state an empty history comes with an absent token. *)
C4_ClearIsAtomic ==
    /\ [](messages = <<>> => previous_response_id = None)
    /\ [][ClearStep => (messages' = <<>> /\ previous_response_id' = None)]_vars

C4_Witness ==
    /\ event = "clear"
    /\ uploader_key > 0
    /\ messages = <<>>
    /\ previous_response_id = None

(* C5 as written: with no reset, the history holds 2N Turns after N
   successful turns, and 2k+1 Turns after a failed call that follows k
   successful turns. *)
C5_LengthAsWritten ==
    (~cleared /\ pc = "idle") =>
        /\ event = "success" => Len(messages) = 2 * ok_turns
        /\ event = "failure" => Len(messages) = 2 * ok_turns + 1

(* C5 amended: with no reset, every successful turn adds two Turns and
   every failed call adds one, so the history holds 2k+f Turns after k
   successful turns and f failed calls (plus the user Turn of a call in
   flight). *)
C5_HistoryLength ==
    ~cleared => Len(messages) = 2 * ok_turns + failed_turns + Len(pending)

C5_Witness ==
    /\ ~cleared
    /\ pc = "idle"
    /\ ok_turns = 1
    /\ failed_turns = 1
    /\ Len(messages) = 3

(* C6: the assembled content is one text part with the trimmed text when
   the text is not blank, followed by one image part per image in upload
   order; the text part, when present, is first. *)
C6_ContentLayout ==
    pc = "assembled" =>
        LET text == chat_input[1]
            t == TrimOf(text)
            off == IF t # <<>> THEN 1 ELSE 0
            n == Len(uploaded)
        IN  /\ Len(images) = n
            /\ Len(Content) = off + n
            /\ t # <<>> => Content[1] = [type |-> "input_text", text |-> t]
            /\ \A i \in 1..n :
                  /\ Content[off + i].type = "input_image"
                  /\ Content[off + i].image_url = DataUrl(uploaded[i])
            /\ (parts = <<>>) = (t = <<>> /\ n = 0)

C6_Witness ==
    /\ pc = "assembled"
    /\ Len(images) = 2
    /\ uploaded[1] # uploaded[2]
    /\ Len(Content) = 3
    /\ Content[1].type = "input_text"
    /\ Content[1].text # chat_input[1]

(* C7: every image part's data URL is data:<mimeType>;base64,<payload> with
   the upload's declared content type, and image/png when none is
   declared. *)
C7_DataUrlMimeType ==
    pc = "assembled" =>
        \A i \in 1..Len(images) :
            images[i].data_url =
                "data:" \o DeclaredMime(uploaded[i].type) \o ";base64,"
                    \o b64encode(uploaded[i].data)

(* C8: the step of a successful call returns to idle, appends the assistant
   Turn with the response's text, replaces the token by the response's
   identifier and leaves the uploader empty. *)
C8_SuccessStep ==
    [][SuccessStep =>
          /\ pc' = "idle"
          /\ Len(messages') = Len(messages) + 1
          /\ SubSeq(messages', 1, Len(messages)) = messages
          /\ Last(messages').role = "assistant"
          /\ Last(messages').content = last_reply'[1].output_text
          /\ previous_response_id' = TokenOf(last_reply')
          /\ uploaded' = <<>>]_vars

C8_Witness ==
    /\ event = "success"
    /\ Len(messages) = 2
    /\ messages[1].content.images # <<>>
    /\ previous_response_id = Some("r2")
    /\ uploaded = <<>>

(* C9: every submission issues exactly one request and none is re-issued:
   the requests made equal the submissions taken, and at most one request
   is outstanding, exactly while the session awaits a response. *)
C9_OneCallPerSubmission ==
    /\ calls = submits
    /\ Len(pending) <= 1
    /\ (pc = "awaiting") = (Len(pending) = 1)

C9_Witness ==
    /\ pc = "idle"
    /\ event = "failure"
    /\ failed_turns = 2
    /\ calls = 2

(* C10: the uploader key changes only in the step of a successful call; a
   failed call and a clear leave the key and the pending uploads as they
   were. *)
C10_UploaderKeyFrame ==
    [][/\ uploader_key' # uploader_key => SuccessStep
       /\ (FailStep \/ ClearStep) =>
             (uploader_key' = uploader_key /\ uploaded' = uploaded)]_vars

C10_Witness ==
    /\ event \in {"failure", "clear"}
    /\ uploaded # <<>>
    /\ uploader_key > 0

====
